---- MODULE Spec2Model ----
(***************************************************************************)
(* Model of stellar-core's OfferFrame (src/ledger/OfferFrame.cpp): the     *)
(* Offers table, the SQL statements OfferFrame issues against it, and the  *)
(* LedgerDelta notifications that follow them.                             *)
(*                                                                         *)
(* The table is a sequence of rows in insertion (rowid) order.  A row is a *)
(* record with one field per column of kSQLCreateStatement.  Text columns  *)
(* hold sequences of integers (characters); the SQL NULL is the value NULL.*)
(***************************************************************************)
EXTENDS Integers, Sequences, FiniteSets, TLC

VARIABLES table,      \* rows of the Offers table, in rowid order
          delta,      \* the LedgerDelta: how often each of its entry points was called
          nOk,        \* per store operation, how many calls returned normally
          lastOp,     \* name of the operation that ran last
          arg,        \* the OfferFrame (mEntry.offer()) the last store operation ran on
          result,     \* how the last operation ended: "ok" or the exception thrown
          lookup,     \* the arguments of the last loadOffer
          range,      \* the arguments of the last loadBestOffers
          res,        \* loadOffer's return value
          retOffer,   \* loadOffer's retOffer
          retOffers,  \* the frames the last load operation handed to its processor
          fetched,    \* the rows the statement of the last load operation yielded
          priceKey    \* computePrice's return value

vars == <<table, delta, nOk, lastOp, arg, result, lookup, range, res, retOffer,
          retOffers, fetched, priceKey>>

----------------------------------------------------------------------------
(* Bounds *)

\* Store operations stop once the LedgerDelta holds this many notifications.
MaxDelta == 3

----------------------------------------------------------------------------
(* Values *)

Range(s) == {s[i] : i \in 1..Len(s)}

Min(a, b) == IF a < b THEN a ELSE b

\* The SQL NULL of a text column; no text is equal to it (characters are >= 0).
NULL == <<-1>>

\* Width of a currency code: xdr opaque[4], column CHARACTER(4).
CodeLen == 4

\* crypto/Base58.h: the version byte of an account id.
VER_ACCOUNT_ID == 0

\* crypto/Base58.h toBase58Check: the textual form of a 32-byte id.  The text
\* carries the version and the id; it is not the id itself.
toBase58Check(ver, id) == <<ver, id>>

\* crypto/Base58.h fromBase58Check256: the id of a textual form.
fromBase58Check256(ver, str) == str[2]

RECURSIVE StripFrom(_, _)
StripFrom(code, i) ==
    IF i > Len(code) \/ code[i] = 0 THEN <<>>
    ELSE <<code[i]>> \o StripFrom(code, i + 1)

\* util/types.h currencyCodeToStr: the characters of the code before the
\* first NUL byte.
currencyCodeToStr(code) == StripFrom(code, 1)

\* util/types.h strToCurrencyCode: the string copied into a CodeLen-byte
\* code, padded with NUL bytes.
strToCurrencyCode(str) ==
    [i \in 1..CodeLen |-> IF i <= Len(str) THEN str[i] ELSE 0]

\* OFFER_PRICE_DIVISOR of ledger/OfferFrame.h.
OFFER_PRICE_DIVISOR == 10000000

\* The quotient q and the remainder m of r*B by C, for 0 <= r < C: r is
\* doubled and added along the bits of B, reduced by C at every step, so
\* that no intermediate value leaves the range of r, B and C.
RECURSIVE MulDiv(_, _, _)
MulDiv(r, B, C) ==
    IF B = 0 THEN [q |-> 0, m |-> 0]
    ELSE LET h == MulDiv(r, B \div 2, C)
             twice == IF h.m >= C - h.m
                      THEN [q |-> h.q + h.q + 1, m |-> h.m - (C - h.m)]
                      ELSE [q |-> h.q + h.q, m |-> h.m + h.m]
         IN  IF B % 2 = 0 THEN twice
             ELSE IF twice.m >= C - r
             THEN [q |-> twice.q + 1, m |-> twice.m - (C - r)]
             ELSE [q |-> twice.q, m |-> twice.m + r]

\* util/types.h bigDivide(A, B, C): A*B/C with a wide intermediate product.
bigDivide(A, B, C) == (A \div C) * B + MulDiv(A % C, B, C).q

\* Currency: the XDR union.  The arm of a NATIVE currency has no isoCI; the
\* record keeps the two fields with a fixed filler so that all currencies
\* have one shape.
NoCode == [i \in 1..CodeLen |-> 0]

Native == [type |-> "NATIVE", currencyCode |-> NoCode, issuer |-> 0]

Issued(code, issuer) == [type |-> "ISO4217", currencyCode |-> code, issuer |-> issuer]

OfferEntry(acc, seq, pays, gets, amount, price, flags) ==
    [accountID |-> acc, sequence |-> seq, takerPays |-> pays, takerGets |-> gets,
     amount |-> amount, price |-> price, flags |-> flags]

\* OfferFrame::OfferFrame(): a default-constructed entry.
DefaultOffer == OfferEntry(0, 0, Native, Native, 0, [n |-> 0, d |-> 0], 0)

\* computePrice with the division done before the multiplication.
computePrice_DivideFirst(oe) == (oe.price.n \div oe.price.d) * OFFER_PRICE_DIVISOR

\* OfferFrame::computePrice
computePrice(oe) == bigDivide(oe.price.n, OFFER_PRICE_DIVISOR, oe.price.d)

----------------------------------------------------------------------------
(* The Offers table: kSQLCreateStatement *)

Columns == {"accountID", "sequence", "paysIsoCurrency", "paysIssuer",
            "getsIsoCurrency", "getsIssuer", "amount", "priceN", "priceD",
            "flags", "price"}

\* Every column of the CREATE TABLE statement is declared NOT NULL.
NotNullColumns == Columns

PrimaryKey(r) == <<r.accountID, r.sequence>>

\* The rows a WHERE accountID=:id AND sequence=:s selects, as table positions.
KeyPositions(t, id, s) ==
    {i \in 1..Len(t) : t[i].accountID = id /\ t[i].sequence = s}

\* SqlInsert without the PRIMARY KEY of the table.
SqlInsert_NoKey(t, cols, vals) ==
    LET given == Range(cols)
        val(c) == vals[CHOOSE i \in 1..Len(cols) : cols[i] = c]
        row == [c \in Columns |-> val(c)]
    IN  IF \/ ~(given \subseteq Columns)
           \/ ~(NotNullColumns \subseteq given)
           \/ row.sequence < 0
        THEN [ok |-> FALSE, table |-> t, affected |-> 0]
        ELSE [ok |-> TRUE, table |-> Append(t, row), affected |-> 1]

\* SqlInsert of a table that accepts any column list: a column it does not
\* have is ignored, a column left out is NULL (text) or 0 (number).
SqlInsert_Lax(t, cols, vals) ==
    LET given == Range(cols)
        val(c) == IF c \in given THEN vals[CHOOSE i \in 1..Len(cols) : cols[i] = c]
                  ELSE IF c \in {"paysIsoCurrency", "paysIssuer",
                                 "getsIsoCurrency", "getsIssuer"} THEN NULL
                  ELSE 0
        row == [c \in Columns |-> val(c)]
    IN  IF \/ row.sequence < 0
           \/ KeyPositions(t, row.accountID, row.sequence) # {}
        THEN [ok |-> FALSE, table |-> t, affected |-> 0]
        ELSE [ok |-> TRUE, table |-> Append(t, row), affected |-> 1]

\* INSERT into Offers (cols) values (vals): the outcome of the statement on
\* table t.  A column that the table does not have, a NOT NULL column left
\* without a value, a failed CHECK and a primary key already present make the
\* statement fail (soci_error) and leave the table as it was.
SqlInsert(t, cols, vals) ==
    LET given == Range(cols)
        val(c) == vals[CHOOSE i \in 1..Len(cols) : cols[i] = c]
        row == [c \in Columns |-> val(c)]
    IN  IF \/ ~(given \subseteq Columns)
           \/ ~(NotNullColumns \subseteq given)
           \/ row.sequence < 0
           \/ KeyPositions(t, row.accountID, row.sequence) # {}
        THEN [ok |-> FALSE, table |-> t, affected |-> 0]
        ELSE [ok |-> TRUE, table |-> Append(t, row), affected |-> 1]

\* SqlUpdate with WHERE sequence=:s alone.
SqlUpdate_BySequence(t, a, n, d, p, id, s) ==
    LET hit == {i \in 1..Len(t) : t[i].sequence = s}
    IN  [table |-> [i \in 1..Len(t) |->
                      IF i \in hit
                      THEN [t[i] EXCEPT !.amount = a, !.priceN = n,
                                        !.priceD = d, !.price = p]
                      ELSE t[i]],
         affected |-> Cardinality(hit)]

\* SqlUpdate without price = :p in the SET list.
SqlUpdate_StalePrice(t, a, n, d, p, id, s) ==
    LET hit == KeyPositions(t, id, s)
    IN  [table |-> [i \in 1..Len(t) |->
                      IF i \in hit
                      THEN [t[i] EXCEPT !.amount = a, !.priceN = n, !.priceD = d]
                      ELSE t[i]],
         affected |-> Cardinality(hit)]

\* UPDATE Offers SET amount, priceN, priceD, price WHERE accountID AND sequence
SqlUpdate(t, a, n, d, p, id, s) ==
    LET hit == KeyPositions(t, id, s)
    IN  [table |-> [i \in 1..Len(t) |->
                      IF i \in hit
                      THEN [t[i] EXCEPT !.amount = a, !.priceN = n,
                                        !.priceD = d, !.price = p]
                      ELSE t[i]],
         affected |-> Cardinality(hit)]

\* SELECT without ORDER BY: the rows at the positions the WHERE clause
\* selects, in rowid order.
RECURSIVE SqlSelect(_, _)
SqlSelect(t, hit) ==
    IF t = <<>> THEN <<>>
    ELSE LET rest == SqlSelect(SubSeq(t, 1, Len(t) - 1), hit)
         IN  IF Len(t) \in hit THEN Append(rest, t[Len(t)]) ELSE rest

\* The table without the rows at the positions hit.
RECURSIVE Without(_, _)
Without(t, hit) ==
    IF t = <<>> THEN <<>>
    ELSE LET rest == Without(SubSeq(t, 1, Len(t) - 1), hit)
         IN  IF Len(t) \in hit THEN rest ELSE Append(rest, t[Len(t)])

\* SqlDelete with WHERE sequence=:s alone.
SqlDelete_BySequence(t, id, s) == Without(t, {i \in 1..Len(t) : t[i].sequence = s})

\* SqlDelete with the WHERE condition inverted.
SqlDelete_Inverted(t, id, s) == SqlSelect(t, KeyPositions(t, id, s))

\* DELETE FROM Offers WHERE accountID=:id AND sequence=:s
SqlDelete(t, id, s) == Without(t, KeyPositions(t, id, s))

\* Order of two texts (the accountID column): shorter-prefix first, then by
\* character.
RECURSIVE TextLess(_, _)
TextLess(a, b) ==
    IF b = <<>> THEN FALSE
    ELSE IF a = <<>> THEN TRUE
    ELSE IF a[1] # b[1] THEN a[1] < b[1]
    ELSE TextLess(Tail(a), Tail(b))

\* RowBefore with the sequence compared before the price.
RowBefore_SequenceFirst(r, q) ==
    \/ r.sequence < q.sequence
    \/ r.sequence = q.sequence /\ r.price < q.price
    \/ r.sequence = q.sequence /\ r.price = q.price
         /\ TextLess(r.accountID, q.accountID)

\* RowBefore without the accountID as the last sort key.
RowBefore_NoAccount(r, q) ==
    \/ r.price < q.price
    \/ r.price = q.price /\ r.sequence < q.sequence

\* order by price,sequence,accountID: r comes strictly before q.
RowBefore(r, q) ==
    \/ r.price < q.price
    \/ r.price = q.price /\ r.sequence < q.sequence
    \/ r.price = q.price /\ r.sequence = q.sequence
         /\ TextLess(r.accountID, q.accountID)

\* r put into the sorted sequence s behind every row that is not after it.
RECURSIVE PutInOrder(_, _)
PutInOrder(s, r) ==
    IF s = <<>> THEN <<r>>
    ELSE IF RowBefore(r, s[1]) THEN <<r>> \o s
    ELSE <<s[1]>> \o PutInOrder(Tail(s), r)

\* ORDER BY of the engine: a stable sort of the selected rows.
RECURSIVE OrderBy(_)
OrderBy(rows) ==
    IF rows = <<>> THEN <<>>
    ELSE PutInOrder(OrderBy(SubSeq(rows, 1, Len(rows) - 1)), rows[Len(rows)])

\* SqlLimit with the two bound values taken in the other order.
SqlLimit_Swapped(rows, o, n) == SubSeq(rows, n + 1, Min(n + o, Len(rows)))

\* limit :o,:n  -- skip o rows, then at most n rows.
SqlLimit(rows, o, n) == SubSeq(rows, o + 1, Min(o + n, Len(rows)))

----------------------------------------------------------------------------
(* OfferFrame: the load operations *)

\* One row as loadOffers stores it in its OfferFrame: the leg is an ISO4217
\* currency when the indicator of its code column is i_ok, NATIVE otherwise.
DecodeLeg(code, issuer) ==
    IF code # NULL
    THEN Issued(strToCurrencyCode(code), fromBase58Check256(VER_ACCOUNT_ID, issuer))
    ELSE Native

DecodeRow(r) ==
    OfferEntry(fromBase58Check256(VER_ACCOUNT_ID, r.accountID), r.sequence,
               DecodeLeg(r.paysIsoCurrency, r.paysIssuer),
               DecodeLeg(r.getsIsoCurrency, r.getsIssuer),
               r.amount, [n |-> r.priceN, d |-> r.priceD], r.flags)

\* The columns loadOffers reads without an indicator cannot take a NULL: the
\* fetch of such a row throws.
Fetchable(r) == r.paysIssuer # NULL /\ r.getsIssuer # NULL

\* OfferFrame::loadOffers(prep, offerProcessor): the frames handed to the
\* processor, one per row, up to the first row whose fetch throws.
loadOffers(rows) ==
    LET bad == {i \in 1..Len(rows) : ~Fetchable(rows[i])}
        stop == IF bad = {} THEN Len(rows) + 1
                ELSE CHOOSE i \in bad : \A j \in bad : i <= j
    IN  [ok |-> bad = {},
         offers |-> [i \in 1..(stop - 1) |-> DecodeRow(rows[i])]]

\* OfferFrame::loadOffer: res and retOffer after the call; retOffer is the
\* caller's frame, left as it was when no row is found.
loadOffer(t, accountID, seq, ret) ==
    LET accStr == toBase58Check(VER_ACCOUNT_ID, accountID)
        rows == SqlSelect(t, KeyPositions(t, accStr, seq))
        ld == loadOffers(rows)
    IN  [ok |-> ld.ok,
         rows |-> rows,
         res |-> ld.offers # <<>>,
         retOffer |-> IF ld.offers # <<>> THEN ld.offers[Len(ld.offers)] ELSE ret]

\* LegMatches without the issuer in the condition of an issued leg.
LegMatches_CodeOnly(code, issuer, cur) ==
    IF cur.type = "NATIVE"
    THEN issuer = NULL
    ELSE code = currencyCodeToStr(cur.currencyCode)

\* The WHERE clause loadBestOffers builds for one leg.
LegMatches(code, issuer, cur) ==
    IF cur.type = "NATIVE"
    THEN issuer = NULL
    ELSE /\ code = currencyCodeToStr(cur.currencyCode)
         /\ issuer = toBase58Check(VER_ACCOUNT_ID, cur.issuer)

BestPositions(t, pays, gets) ==
    {i \in 1..Len(t) :
        /\ LegMatches(t[i].paysIsoCurrency, t[i].paysIssuer, pays)
        /\ LegMatches(t[i].getsIsoCurrency, t[i].getsIssuer, gets)}

\* The rows the statement of loadBestOffers yields.
BestRows(t, numOffers, offset, pays, gets) ==
    SqlLimit(OrderBy(SqlSelect(t, BestPositions(t, pays, gets))), offset, numOffers)

\* OfferFrame::loadBestOffers: what is appended to retOffers.
loadBestOffers(t, numOffers, offset, pays, gets) ==
    loadOffers(BestRows(t, numOffers, offset, pays, gets))

----------------------------------------------------------------------------
(* OfferFrame: the store operations.  Each yields the table and the        *)
(* LedgerDelta after the call and how the call ended.                      *)

Outcome(t, d, r) == [table |-> t, delta |-> d, result |-> r]

\* LedgerDelta::addEntry, modEntry, deleteEntry: one more call of that kind.
Notify(d, kind) == [d EXCEPT ![kind] = @ + 1]

NoDelta == [addEntry |-> 0, modEntry |-> 0, deleteEntry |-> 0]

Notified(d) == d.addEntry + d.modEntry + d.deleteEntry

\* OfferFrame::storeDelete
storeDelete(t, d, e) ==
    LET b58AccountID == toBase58Check(VER_ACCOUNT_ID, e.accountID)
    IN  Outcome(SqlDelete(t, b58AccountID, e.sequence),
                Notify(d, "deleteEntry"), "ok")

\* storeChange without the test of the affected-row count.
storeChange_Unchecked(t, d, e) ==
    LET b58AccountID == toBase58Check(VER_ACCOUNT_ID, e.accountID)
        st == SqlUpdate(t, e.amount, e.price.n, e.price.d, computePrice(e),
                        b58AccountID, e.sequence)
    IN  Outcome(st.table, Notify(d, "modEntry"), "ok")

\* storeChange with modEntry called before the test of the affected-row count.
storeChange_NotifyFirst(t, d, e) ==
    LET b58AccountID == toBase58Check(VER_ACCOUNT_ID, e.accountID)
        st == SqlUpdate(t, e.amount, e.price.n, e.price.d, computePrice(e),
                        b58AccountID, e.sequence)
    IN  IF st.affected # 1
        THEN Outcome(st.table, Notify(d, "modEntry"), "runtime_error")
        ELSE Outcome(st.table, Notify(d, "modEntry"), "ok")

\* OfferFrame::storeChange
storeChange(t, d, e) ==
    LET b58AccountID == toBase58Check(VER_ACCOUNT_ID, e.accountID)
        st == SqlUpdate(t, e.amount, e.price.n, e.price.d, computePrice(e),
                        b58AccountID, e.sequence)
    IN  IF st.affected # 1
        THEN Outcome(st.table, d, "runtime_error")
        ELSE Outcome(st.table, Notify(d, "modEntry"), "ok")

\* The INSERT statement storeAdd prepares, by the branch taken: the columns
\* it names and the values it binds to them, in the order of the use() list.
AddBinding(e) ==
    LET b58AccountID == toBase58Check(VER_ACCOUNT_ID, e.accountID)
    IN  IF e.takerGets.type = "NATIVE"
        \* with takerPays NATIVE too, isoCI() is read from the wrong arm of
        \* the union; whatever it yields, the statement fails
        THEN LET b58issuer == toBase58Check(VER_ACCOUNT_ID, e.takerPays.issuer)
                 currencyCode == currencyCodeToStr(e.takerPays.currencyCode)
             IN  [cols |-> <<"accountID", "sequence", "paysIsoCurrency", "paysIssuer",
                             "amount", "priceN", "priceP", "price", "flags">>,
                  vals |-> <<b58AccountID, e.sequence, b58issuer, currencyCode,
                             e.amount, e.price.n, e.price.d, computePrice(e), e.flags>>]
        ELSE IF e.takerPays.type = "NATIVE"
        THEN LET b58issuer == toBase58Check(VER_ACCOUNT_ID, e.takerGets.issuer)
                 currencyCode == currencyCodeToStr(e.takerGets.currencyCode)
             IN  [cols |-> <<"accountID", "sequence", "getsIsoCurrency", "getsIssuer",
                             "amount", "priceN", "priceD", "price", "flags">>,
                  vals |-> <<b58AccountID, e.sequence, b58issuer, currencyCode,
                             e.amount, e.price.n, e.price.d, computePrice(e), e.flags>>]
        ELSE LET b58PaysIssuer == toBase58Check(VER_ACCOUNT_ID, e.takerPays.issuer)
                 paysIsoCurrency == currencyCodeToStr(e.takerPays.currencyCode)
                 b58GetsIssuer == toBase58Check(VER_ACCOUNT_ID, e.takerGets.issuer)
                 getsIsoCurrency == currencyCodeToStr(e.takerGets.currencyCode)
             IN  [cols |-> <<"accountID", "sequence", "paysIsoCurrency", "paysIssuer",
                             "getsIsoCurrency", "getsIssuer",
                             "amount", "priceN", "priceD", "price", "flags">>,
                  vals |-> <<b58AccountID, e.sequence, paysIsoCurrency, b58PaysIssuer,
                             getsIsoCurrency, b58GetsIssuer,
                             e.amount, e.price.n, e.price.d, computePrice(e), e.flags>>]

\* The statement of storeAdd executed on table t.
AddStatement(t, e) == SqlInsert(t, AddBinding(e).cols, AddBinding(e).vals)

\* OfferFrame::storeAdd
storeAdd(t, d, e) ==
    LET st == AddStatement(t, e)
    IN  IF ~st.ok
        THEN Outcome(st.table, d, "soci_error")
        ELSE IF st.affected # 1
        THEN Outcome(st.table, d, "runtime_error")
        ELSE Outcome(st.table, Notify(d, "addEntry"), "ok")

\* OfferFrame::dropAll: DROP TABLE IF EXISTS, then the CREATE statement.
dropAll(t) == <<>>

----------------------------------------------------------------------------
(* Inputs *)

USD == <<85, 83, 68, 0>>
EUR == <<69, 85, 82, 0>>

Term(amount, n, d, flags) == [amount |-> amount, price |-> [n |-> n, d |-> d], flags |-> flags]

Frames(keys, pairs, terms) ==
    {OfferEntry(k[1], k[2], p[1], p[2], t.amount, t.price, t.flags) :
        k \in keys, p \in pairs, t \in terms}

Lookups(keys) == {[accountID |-> k[1], sequence |-> k[2]] : k \in keys}

Ranges(pages, pairs) ==
    {[numOffers |-> pg[1], offset |-> pg[2], pays |-> p[1], gets |-> p[2]] :
        pg \in pages, p \in pairs}

\* Spec: two keys; one pair of legs per branch of storeAdd and the pair with
\* both legs native; a base term, each mutable field changed alone, and all
\* of them changed.
Keys == {<<1, 1>>, <<2, 1>>}

Pairs == {<<Native, Native>>, <<Native, Issued(USD, 7)>>,
          <<Issued(USD, 7), Native>>, <<Issued(USD, 7), Issued(EUR, 7)>>}

Terms == {Term(100, 3, 1, 0), Term(50, 3, 1, 0), Term(100, 1, 2, 0),
          Term(100, 3, 1, 1), Term(50, 1, 2, 1)}

Entities == Frames(Keys, Pairs, Terms)

Pages == {<<2, 0>>}

\* SpecFilter: two keys, one term, and legs that differ in the code only, in
\* the issuer only, or in being native.
FilterCurrencies == {Native, Issued(USD, 7), Issued(EUR, 7), Issued(USD, 8)}

FilterPairs == FilterCurrencies \X FilterCurrencies

FilterEntities == Frames(Keys, FilterPairs, {Term(100, 3, 1, 0)})

\* SpecBook: one pair, six keys, two prices.
BookKeys == {1, 2} \X {1, 3, 5}

BookPairs == {<<Issued(USD, 7), Issued(EUR, 7)>>}

BookEntities == Frames(BookKeys, BookPairs, {Term(100, 1, 2, 0), Term(100, 1, 3, 0)})

BookPages == {<<3, 0>>, <<1, 0>>, <<1, 1>>, <<1, 2>>, <<2, 1>>}

\* SpecDecode: the result sets a statement handed to loadOffers can yield:
\* one or two rows, each column of a leg either NULL or a text.
Fetched(acc, seq, pc, pi, gc, gi) ==
    [accountID |-> toBase58Check(VER_ACCOUNT_ID, acc), sequence |-> seq,
     paysIsoCurrency |-> pc, paysIssuer |-> pi,
     getsIsoCurrency |-> gc, getsIssuer |-> gi,
     amount |-> 100, priceN |-> 3, priceD |-> 1, flags |-> 0, price |-> 30000000]

FetchedRow(k) ==
    {Fetched(k[1], k[2], pc, pi, gc, gi) :
        pc \in {NULL, currencyCodeToStr(USD)},
        pi \in {NULL, toBase58Check(VER_ACCOUNT_ID, 7)},
        gc \in {NULL, currencyCodeToStr(EUR)},
        gi \in {NULL, toBase58Check(VER_ACCOUNT_ID, 7)}}

ResultSets ==
    {<<r>> : r \in FetchedRow(<<1, 1>>)}
        \cup {<<r, q>> : r \in FetchedRow(<<1, 1>>), q \in FetchedRow(<<2, 1>>)}

\* SpecPrice: prices with numerators and denominators from the small values
\* to the largest of int32, for which the ordering key is below 2^31.
PriceN == (0..12) \cup {214, 215, 65536, 10000000, 2147483646, 2147483647}
PriceD == (1..8) \cup {65536, 9999999, 10000000, 10000001, 2147483646, 2147483647}

PriceFrames ==
    {OfferEntry(1, 1, Issued(USD, 7), Issued(EUR, 7), 100, [n |-> p[1], d |-> p[2]], 0) :
        p \in {x \in PriceN \X PriceD : x[1] \div x[2] < 214}}

NoLookup == [accountID |-> 0, sequence |-> 0]
NoRange == [numOffers |-> 0, offset |-> 0, pays |-> Native, gets |-> Native]

----------------------------------------------------------------------------
(* The state machine *)

Init ==
    /\ table = <<>>
    /\ delta = NoDelta
    /\ nOk = [storeAdd |-> 0, storeChange |-> 0, storeDelete |-> 0]
    /\ lastOp = "none"
    /\ arg = DefaultOffer
    /\ result = "ok"
    /\ lookup = NoLookup
    /\ range = NoRange
    /\ res = FALSE
    /\ retOffer = DefaultOffer
    /\ retOffers = <<>>
    /\ fetched = <<>>
    /\ priceKey = 0

\* No load operation is the last call.
NoLoad ==
    /\ lookup' = NoLookup
    /\ range' = NoRange
    /\ res' = FALSE
    /\ retOffer' = DefaultOffer
    /\ retOffers' = <<>>
    /\ fetched' = <<>>
    /\ priceKey' = 0

\* The store operation op called on frame e, ending as outcome o.
Stored(op, e, o) ==
    /\ Notified(delta) < MaxDelta
    /\ table' = o.table
    /\ delta' = o.delta
    /\ result' = o.result
    /\ nOk' = IF o.result = "ok" THEN [nOk EXCEPT ![op] = @ + 1] ELSE nOk
    /\ lastOp' = op
    /\ arg' = e
    /\ NoLoad

StoreAdd(E) == \E e \in E : Stored("storeAdd", e, storeAdd(table, delta, e))

StoreChange(E) == \E e \in E : Stored("storeChange", e, storeChange(table, delta, e))

StoreDelete(E) == \E e \in E : Stored("storeDelete", e, storeDelete(table, delta, e))

DropAll ==
    /\ table' = dropAll(table)
    /\ lastOp' = "dropAll"
    /\ arg' = DefaultOffer
    /\ result' = "ok"
    /\ NoLoad
    /\ UNCHANGED <<delta, nOk>>

LoadOffer(K) ==
    \E k \in K :
        LET ld == loadOffer(table, k.accountID, k.sequence, DefaultOffer)
        IN  /\ lastOp' = "loadOffer"
            /\ lookup' = k
            /\ res' = ld.res
            /\ retOffer' = ld.retOffer
            /\ result' = IF ld.ok THEN "ok" ELSE "soci_error"
            /\ fetched' = ld.rows
            /\ range' = NoRange
            /\ retOffers' = <<>>
            /\ arg' = DefaultOffer
            /\ priceKey' = 0
            /\ UNCHANGED <<table, delta, nOk>>

LoadBestOffers(Q) ==
    \E q \in Q :
        LET ld == loadBestOffers(table, q.numOffers, q.offset, q.pays, q.gets)
        IN  /\ lastOp' = "loadBestOffers"
            /\ range' = q
            /\ retOffers' = ld.offers
            /\ fetched' = BestRows(table, q.numOffers, q.offset, q.pays, q.gets)
            /\ result' = IF ld.ok THEN "ok" ELSE "soci_error"
            /\ lookup' = NoLookup
            /\ res' = FALSE
            /\ retOffer' = DefaultOffer
            /\ arg' = DefaultOffer
            /\ priceKey' = 0
            /\ UNCHANGED <<table, delta, nOk>>

\* OfferFrame::loadOffers(prep, offerProcessor) on a statement that yields
\* one of the result sets R, the processor appending to retOffers.
LoadOffers(R) ==
    \E rows \in R :
        LET ld == loadOffers(rows)
        IN  /\ lastOp' = "loadOffers"
            /\ fetched' = rows
            /\ retOffers' = ld.offers
            /\ result' = IF ld.ok THEN "ok" ELSE "soci_error"
            /\ lookup' = NoLookup
            /\ range' = NoRange
            /\ res' = FALSE
            /\ retOffer' = DefaultOffer
            /\ arg' = DefaultOffer
            /\ priceKey' = 0
            /\ UNCHANGED <<table, delta, nOk>>

\* OfferFrame::computePrice called on frame e.
ComputePrice(E) ==
    \E e \in E :
        /\ lastOp' = "computePrice"
        /\ arg' = e
        /\ priceKey' = computePrice(e)
        /\ result' = "ok"
        /\ lookup' = NoLookup
        /\ range' = NoRange
        /\ res' = FALSE
        /\ retOffer' = DefaultOffer
        /\ retOffers' = <<>>
        /\ fetched' = <<>>
        /\ UNCHANGED <<table, delta, nOk>>

Next ==
    \/ StoreAdd(Entities)
    \/ StoreChange(Entities)
    \/ StoreDelete(Entities)
    \/ DropAll
    \/ LoadOffer(Lookups(Keys))
    \/ LoadBestOffers(Ranges(Pages, Pairs))

Spec == Init /\ [][Next]_vars

NextFilter ==
    \/ StoreAdd(FilterEntities)
    \/ StoreChange(FilterEntities)
    \/ StoreDelete(FilterEntities)
    \/ DropAll
    \/ LoadOffer(Lookups(Keys))
    \/ LoadBestOffers(Ranges(Pages, FilterPairs))

SpecFilter == Init /\ [][NextFilter]_vars

NextBook ==
    \/ StoreAdd(BookEntities)
    \/ StoreChange(BookEntities)
    \/ StoreDelete(BookEntities)
    \/ DropAll
    \/ LoadOffer(Lookups(BookKeys))
    \/ LoadBestOffers(Ranges(BookPages, BookPairs))

SpecBook == Init /\ [][NextBook]_vars

NextDecode == LoadOffers(ResultSets)

SpecDecode == Init /\ [][NextDecode]_vars

NextPrice == ComputePrice(PriceFrames)

SpecPrice == Init /\ [][NextPrice]_vars

----------------------------------------------------------------------------
(* Properties *)

\* The frame has a row under its key in table t.
HasRow(t, e) == KeyPositions(t, toBase58Check(VER_ACCOUNT_ID, e.accountID), e.sequence) # {}

\* The rows of t under the key of frame e.
RowsOf(t, e) ==
    SqlSelect(t, KeyPositions(t, toBase58Check(VER_ACCOUNT_ID, e.accountID), e.sequence))

\* What a loadOffer on the key of frame e yields on table t.
Reload(t, e) == loadOffer(t, e.accountID, e.sequence, DefaultOffer)

WellFormed(e) == ~(e.takerPays.type = "NATIVE" /\ e.takerGets.type = "NATIVE")

BothIssued(e) == e.takerPays.type = "ISO4217" /\ e.takerGets.type = "ISO4217"

\* C1: storeAdd of a well-formed offer whose key has no row succeeds, and a
\* following loadOffer on its key returns true with a frame equal to the
\* offer in every field.
C1_AddThenLoad ==
    [][(lastOp' = "storeAdd" /\ WellFormed(arg') /\ ~HasRow(table, arg'))
        => /\ result' = "ok"
           /\ Reload(table', arg').ok
           /\ Reload(table', arg').res
           /\ Reload(table', arg').retOffer = arg']_vars

\* The order of C2 on the frames loadBestOffers returns: ordering key, then
\* sequence, then accountID in its stored form.
FrameBefore(a, b) ==
    \/ computePrice(a) < computePrice(b)
    \/ computePrice(a) = computePrice(b) /\ a.sequence < b.sequence
    \/ computePrice(a) = computePrice(b) /\ a.sequence = b.sequence
         /\ TextLess(toBase58Check(VER_ACCOUNT_ID, a.accountID),
                     toBase58Check(VER_ACCOUNT_ID, b.accountID))

\* C2: loadBestOffers returns its result sorted ascending by ordering key,
\* then sequence, then accountID: of any two returned offers the earlier one
\* is before the later one in that order.
C2_BestOffersSorted ==
    lastOp = "loadBestOffers"
        => \A i, j \in 1..Len(retOffers) :
              i < j => FrameBefore(retOffers[i], retOffers[j])

\* C2's example: O1=(1/2, seq 5, A), O2=(1/2, seq 3, A), O3=(1/3, seq 1, B)
\* stored and returned as [O3, O2, O1].
C2_Witness ==
    LET pays == Issued(USD, 7)
        gets == Issued(EUR, 7)
        O1 == OfferEntry(1, 5, pays, gets, 100, [n |-> 1, d |-> 2], 0)
        O2 == OfferEntry(1, 3, pays, gets, 100, [n |-> 1, d |-> 2], 0)
        O3 == OfferEntry(2, 1, pays, gets, 100, [n |-> 1, d |-> 3], 0)
    IN  /\ lastOp = "loadBestOffers"
        /\ Len(table) = 3
        /\ [i \in 1..3 |-> DecodeRow(table[i])] = <<O1, O2, O3>>
        /\ retOffers = <<O3, O2, O1>>

\* The frames of the rows of t whose legs are the pair (pays, gets).
OfPair(t, pays, gets) ==
    {DecodeRow(t[i]) : i \in {j \in 1..Len(t) :
        /\ DecodeRow(t[j]).takerPays = pays
        /\ DecodeRow(t[j]).takerGets = gets}}

\* C3: an unpaginated loadBestOffers(pays, gets) returns exactly the stored
\* offers whose takerPays equals pays and whose takerGets equals gets, none
\* of another pair and none of the pair missing; and an offer that storeAdd
\* has just stored is returned for the filter (pays, gets) if and only if
\* its takerPays equals pays and its takerGets equals gets.
C3_BestOffersOfPair ==
    /\ []((lastOp = "loadBestOffers" /\ range.offset = 0
                                      /\ range.numOffers >= Len(table))
           => Range(retOffers) = OfPair(table, range.pays, range.gets))
    /\ [][(lastOp' = "storeAdd" /\ result' = "ok")
           => \A p \in FilterPairs :
                 (arg' \in Range(loadBestOffers(table', Len(table'), 0, p[1], p[2]).offers))
                    <=> (arg'.takerPays = p[1] /\ arg'.takerGets = p[2])]_vars

\* A query answered with one of two stored offers, the other being of a pair
\* that differs in the issuer of one leg only.
C3_Witness ==
    /\ lastOp = "loadBestOffers"
    /\ range.offset = 0
    /\ Len(table) = 2
    /\ Len(retOffers) = 1
    /\ \E i \in 1..2 :
          /\ DecodeRow(table[i]).takerPays.currencyCode = range.pays.currencyCode
          /\ DecodeRow(table[i]).takerPays.issuer # range.pays.issuer
          /\ DecodeRow(table[i]).takerGets = range.gets

\* C4: storeAdd of an offer whose key already has a row fails with an error,
\* and the row stored under that key is the same in every column afterwards.
C4_DuplicateAddFails ==
    [][(lastOp' = "storeAdd" /\ HasRow(table, arg'))
        => /\ result' # "ok"
           /\ RowsOf(table', arg') = RowsOf(table, arg')]_vars

\* A refused storeAdd of an offer that could be stored, on a key whose row
\* differs from it.
C4_Witness ==
    /\ lastOp = "storeAdd"
    /\ result = "soci_error"
    /\ BothIssued(arg)
    /\ Len(RowsOf(table, arg)) = 1
    /\ DecodeRow(RowsOf(table, arg)[1]) # arg

\* C5: storeChange on a key that has no row fails with an error, and the
\* store holds the same rows after the call as before it.
C5_ChangeOfAbsentFails ==
    [][(lastOp' = "storeChange" /\ ~HasRow(table, arg'))
        => /\ result' # "ok"
           /\ table' = table]_vars

\* A refused storeChange on a key without a row, another key having one.
C5_Witness ==
    /\ lastOp = "storeChange"
    /\ result = "runtime_error"
    /\ ~HasRow(table, arg)
    /\ table # <<>>

\* C6: the LedgerDelta has one addEntry per storeAdd that returned normally,
\* one modEntry per such storeChange and one deleteEntry per such
\* storeDelete, and no other notification: a call that throws adds none.
C6_OneNoticePerSuccess ==
    /\ delta.addEntry = nOk.storeAdd
    /\ delta.modEntry = nOk.storeChange
    /\ delta.deleteEntry = nOk.storeDelete
    /\ Notified(delta) = nOk.storeAdd + nOk.storeChange + nOk.storeDelete

\* A storeChange that threw after a storeAdd and a storeDelete that returned.
C6_Witness ==
    /\ lastOp = "storeChange"
    /\ result = "runtime_error"
    /\ delta = [addEntry |-> 1, modEntry |-> 0, deleteEntry |-> 1]

\* C7: storeDelete on a key that has no row records no deleteEntry.
C7_NoNoticeForAbsentRow ==
    [][(lastOp' = "storeDelete" /\ ~HasRow(table, arg'))
        => delta'.deleteEntry = delta.deleteEntry]_vars

\* C8: after storeDelete of an offer a loadOffer on its key returns false, and
\* a key without a row stays without one through every step that is not a
\* storeAdd of that key.
C8_DeletedIsAbsent ==
    /\ [](lastOp = "storeDelete" => ~Reload(table, arg).res)
    /\ [][\A k \in Lookups(Keys) :
            (~loadOffer(table, k.accountID, k.sequence, DefaultOffer).res
               /\ ~(lastOp' = "storeAdd" /\ arg'.accountID = k.accountID
                                        /\ arg'.sequence = k.sequence))
            => ~loadOffer(table', k.accountID, k.sequence, DefaultOffer).res]_vars

\* A storeDelete of the row that was added and then changed.
C8_Witness ==
    /\ lastOp = "storeDelete"
    /\ delta = [addEntry |-> 1, modEntry |-> 1, deleteEntry |-> 1]
    /\ table = <<>>

\* C9: the table holds at most one row per (accountID, sequence).
C9_OneRowPerKey ==
    \A i, j \in 1..Len(table) :
        PrimaryKey(table[i]) = PrimaryKey(table[j]) => i = j

\* Both keys hold a row and a further storeAdd has been refused.
C9_Witness ==
    /\ Len(table) = 2
    /\ lastOp = "storeAdd"
    /\ BothIssued(arg)
    /\ result # "ok"

\* C10: after a storeChange that returned normally, a loadOffer on the key
\* returns the amount, the price and the flags of the frame it was called on.
C10_ChangePersistsAll ==
    (lastOp = "storeChange" /\ result = "ok")
        => LET o == Reload(table, arg).retOffer
           IN  /\ o.amount = arg.amount
               /\ o.price = arg.price
               /\ o.flags = arg.flags

\* The offer of the end-to-end scenario and the same offer with amount 50.
ScenarioOffer(amount) ==
    OfferEntry(1, 1, Native, Issued(USD, 7), amount, [n |-> 3, d |-> 1], 0)

\* The scenario's query on table t: pays Native, gets USD.
ScenarioQuery(t) == loadBestOffers(t, 2, 0, Native, Issued(USD, 7)).offers

\* C11: on an empty store, storeAdd of the scenario's offer succeeds and the
\* query then returns exactly that offer; a storeChange of its amount to 50
\* makes the query return it with amount 50; a storeDelete makes the query
\* return the empty sequence.
C11_Scenario ==
    [][/\ (table = <<>> /\ lastOp' = "storeAdd" /\ arg' = ScenarioOffer(100))
            => (result' = "ok" /\ ScenarioQuery(table') = <<ScenarioOffer(100)>>)
       /\ (ScenarioQuery(table) = <<ScenarioOffer(100)>>
              /\ lastOp' = "storeChange" /\ arg' = ScenarioOffer(50))
            => (result' = "ok" /\ ScenarioQuery(table') = <<ScenarioOffer(50)>>)
       /\ (ScenarioQuery(table) = <<ScenarioOffer(50)>>
              /\ lastOp' = "storeDelete" /\ arg' = ScenarioOffer(50))
            => (result' = "ok" /\ ScenarioQuery(table') = <<>>)]_vars

\* The value the statement b binds to column c, NULL when b does not name c.
Bound(b, c) ==
    IF c \in Range(b.cols)
    THEN b.vals[CHOOSE i \in 1..Len(b.cols) : b.cols[i] = c]
    ELSE NULL

\* C13: each leg of the offer storeAdd is called on is decoded by loadOffers,
\* from the (code, issuer) column pair storeAdd's statement gives that leg,
\* to the same currency: Native from two absent columns, Issued{code, issuer}
\* from the code in the code column and the issuer in the issuer column; and
\* a stored offer is loaded with the legs it was added with.
C13_CodecRoundTrip ==
    (lastOp = "storeAdd" /\ WellFormed(arg))
        => /\ DecodeLeg(Bound(AddBinding(arg), "paysIsoCurrency"),
                        Bound(AddBinding(arg), "paysIssuer")) = arg.takerPays
           /\ DecodeLeg(Bound(AddBinding(arg), "getsIsoCurrency"),
                        Bound(AddBinding(arg), "getsIssuer")) = arg.takerGets
           /\ result = "ok"
                => /\ Reload(table, arg).retOffer.takerPays = arg.takerPays
                   /\ Reload(table, arg).retOffer.takerGets = arg.takerGets

\* Exactly one of the code and the issuer column of a leg is NULL.
HalfLeg(code, issuer) == (code = NULL) # (issuer = NULL)

Malformed(r) ==
    \/ HalfLeg(r.paysIsoCurrency, r.paysIssuer)
    \/ HalfLeg(r.getsIsoCurrency, r.getsIssuer)

FullList(t, pays, gets) == loadBestOffers(t, Len(t), 0, pays, gets).offers

\* The pages of n offers at offsets o, o + n, o + 2n, ... one after another.
RECURSIVE PagesFrom(_, _, _, _, _)
PagesFrom(t, n, o, pays, gets) ==
    IF o >= Len(t) THEN <<>>
    ELSE loadBestOffers(t, n, o, pays, gets).offers \o PagesFrom(t, n, o + n, pays, gets)

\* C15: loadBestOffers(limit, offset) returns the elements at positions
\* offset .. offset+limit-1 of the full sorted list of the pair (fewer when
\* the list is shorter), and the consecutive pages of any size, one after
\* another, are the full list.
C15_Pagination ==
    /\ lastOp = "loadBestOffers"
          => LET full == FullList(table, range.pays, range.gets)
             IN  retOffers = SubSeq(full, range.offset + 1,
                                    Min(range.offset + range.numOffers, Len(full)))
    /\ \A p \in BookPairs : \A n \in 1..(Len(table) + 1) :
          PagesFrom(table, n, 0, p[1], p[2]) = FullList(table, p[1], p[2])

\* The second page of size one of a list of three offers.
C15_Witness ==
    /\ lastOp = "loadBestOffers"
    /\ range.numOffers = 1
    /\ range.offset = 1
    /\ Len(FullList(table, range.pays, range.gets)) = 3
    /\ retOffers = <<FullList(table, range.pays, range.gets)[2]>>

\* The tables that hold the same set of rows as t, in any rowid order.
SameRows(t) ==
    {s \in [1..Len(t) -> Range(t)] : Range(s) = Range(t)}

\* C16: two stores that hold the same set of rows enumerate the offers of a
\* pair identically, whatever the order the rows were inserted in: the
\* result of loadBestOffers is a function of the set of rows alone.
C16_OrderIsCanonical ==
    \A s \in SameRows(table) : \A q \in Ranges(BookPages, BookPairs) :
        loadBestOffers(s, q.numOffers, q.offset, q.pays, q.gets)
            = loadBestOffers(table, q.numOffers, q.offset, q.pays, q.gets)

\* Two offers that tie on price and sequence, the one of the larger account
\* inserted first, are returned with the smaller account first.
C16_Witness ==
    /\ lastOp = "loadBestOffers"
    /\ Len(table) = 2
    /\ table[1].price = table[2].price
    /\ table[1].sequence = table[2].sequence
    /\ TextLess(table[2].accountID, table[1].accountID)
    /\ retOffers = <<DecodeRow(table[2]), DecodeRow(table[1])>>

\* A leg is stored as issued: its code and issuer columns both hold a value.
LegStored(code, issuer) == code # NULL /\ issuer # NULL

\* C17: in every reachable state every row has at least one of its two
\* (code, issuer) column pairs non-null, and a storeAdd of an offer whose
\* takerPays and takerGets are both Native does not create a row.
C17_NoNativeNativeRow ==
    /\ [](\A i \in 1..Len(table) :
            \/ LegStored(table[i].paysIsoCurrency, table[i].paysIssuer)
            \/ LegStored(table[i].getsIsoCurrency, table[i].getsIssuer))
    /\ [][(lastOp' = "storeAdd" /\ ~WellFormed(arg'))
            => (result' # "ok" /\ table' = table)]_vars

\* A storeAdd of a native/native offer was refused on a table with a row.
C17_Witness ==
    /\ lastOp = "storeAdd"
    /\ ~WellFormed(arg)
    /\ result # "ok"
    /\ Len(table) = 1
    /\ ~HasRow(table, arg)

\* The rows of t under the keys other than the key of frame e.
OtherRows(t, e) ==
    SqlSelect(t, (1..Len(t)) \ KeyPositions(t, toBase58Check(VER_ACCOUNT_ID, e.accountID),
                                            e.sequence))

\* C18: storeDelete of a key that has no row is not an error and leaves the
\* table unchanged, a second storeDelete of the same offer leaves the table
\* the first one left, and no row of another key is removed.
C18_DeleteIdempotent ==
    [][lastOp' = "storeDelete"
        => /\ result' = "ok"
           /\ ~HasRow(table, arg') => table' = table
           /\ storeDelete(table', delta', arg').result = "ok"
           /\ storeDelete(table', delta', arg').table = table'
           /\ OtherRows(table', arg') = OtherRows(table, arg')]_vars

\* Two storeDelete calls on keys without a row, next to a row of another key.
C18_Witness ==
    /\ lastOp = "storeDelete"
    /\ result = "ok"
    /\ ~HasRow(table, arg)
    /\ Len(table) = 1
    /\ delta = [addEntry |-> 1, modEntry |-> 0, deleteEntry |-> 2]

\* The identity and the legs of a row.
Identity(r) ==
    <<r.accountID, r.sequence, r.paysIsoCurrency, r.paysIssuer,
      r.getsIsoCurrency, r.getsIssuer>>

\* C19: after a successful storeChange(e) the row at the key of e keeps its
\* accountID, sequence and legs, whatever legs e carries, and every row of
\* another key is unchanged in every column.
C19_ChangeKeepsIdentity ==
    [][(lastOp' = "storeChange" /\ result' = "ok")
        => /\ Len(table') = Len(table)
           /\ \A i \in 1..Len(table) :
                IF i \in KeyPositions(table, toBase58Check(VER_ACCOUNT_ID, arg'.accountID),
                                      arg'.sequence)
                THEN Identity(table'[i]) = Identity(table[i])
                ELSE table'[i] = table[i]]_vars

\* A successful storeChange with a frame whose legs are not those of its
\* row, next to a row of another key.
C19_Witness ==
    /\ lastOp = "storeChange"
    /\ result = "ok"
    /\ Len(table) = 2
    /\ HasRow(table, arg)
    /\ DecodeRow(RowsOf(table, arg)[1]).takerPays # arg.takerPays
    /\ DecodeRow(RowsOf(table, arg)[1]).takerGets = Issued(EUR, 7)
    /\ DecodeRow(RowsOf(table, arg)[1]).amount = arg.amount

\* C20: in every reachable state each row's price column equals
\* computePrice of that row's priceN and priceD.
C20_PriceKeyConsistent ==
    \A i \in 1..Len(table) :
        table[i].price = bigDivide(table[i].priceN, OFFER_PRICE_DIVISOR, table[i].priceD)

\* A successful storeChange to the price 1/2 on a row next to a row that
\* has the price 3/1.
C20_Witness ==
    /\ lastOp = "storeChange"
    /\ result = "ok"
    /\ Len(table) = 2
    /\ RowsOf(table, arg)[1].priceN = 1
    /\ RowsOf(table, arg)[1].priceD = 2
    /\ RowsOf(table, arg)[1].price = 5000000
    /\ \E i \in 1..2 : table[i].price = 30000000

\* The four digits of x to the base 1024, lowest first (0 <= x < 2^40).
Digits(x) == [i \in 0..3 |-> (x \div (1024 ^ i)) % 1024]

\* Column k of the long multiplication x*y, plus digit k of z.
Column(x, y, z, k) ==
    LET part(i) == IF k - i \in 0..3 THEN Digits(x)[i] * Digits(y)[k - i] ELSE 0
    IN  part(0) + part(1) + part(2) + part(3) + (IF k \in 0..3 THEN Digits(z)[k] ELSE 0)

\* The carry into column k.
RECURSIVE CarryIn(_, _, _, _)
CarryIn(x, y, z, k) ==
    IF k = 0 THEN 0
    ELSE (Column(x, y, z, k - 1) + CarryIn(x, y, z, k - 1)) \div 1024

\* x*y + z as eight digits to the base 1024, highest first.
Wide(x, y, z) ==
    [j \in 1..8 |-> (Column(x, y, z, 8 - j) + CarryIn(x, y, z, 8 - j)) % 1024]

\* u <= v for two numbers of eight digits.
WideLeq(u, v) == u = v \/ TextLess(u, v)

\* C12: for a price with non-negative numerator n and positive denominator
\* d, computePrice returns floor(n * OFFER_PRICE_DIVISOR / d): the q with
\* q*d <= n*OFFER_PRICE_DIVISOR < q*d + d, the products taken in full width;
\* for the price 1/3 it returns 3333333.
C12_ComputePriceIsFloor ==
    lastOp = "computePrice"
        => /\ priceKey >= 0
           /\ WideLeq(Wide(priceKey, arg.price.d, 0),
                      Wide(arg.price.n, OFFER_PRICE_DIVISOR, 0))
           /\ TextLess(Wide(arg.price.n, OFFER_PRICE_DIVISOR, 0),
                       Wide(priceKey, arg.price.d, arg.price.d))
           /\ (arg.price.n = 1 /\ arg.price.d = 3) => priceKey = 3333333

\* The largest numerator over the largest denominator but one: the product
\* is far beyond 32 bits, the key is the divisor itself.
C12_Witness ==
    /\ lastOp = "computePrice"
    /\ arg.price.n = 2147483647
    /\ arg.price.d = 2147483646
    /\ priceKey = 10000000

====
